---- MODULE Spec2Model ----
(***************************************************************************)
(* censorscope sandbox (src/src/sandbox.c): a Lua 5.1 VM created with a    *)
(* quota-tracking allocator and an instruction-count hook, driven through  *)
(* sandbox_init, sandbox_run and sandbox_destroy.                          *)
(*                                                                         *)
(* The host code is a sequential program; pc is its position.  While pc is *)
(* inside a Lua API call the VM may call its allocator any number of times *)
(* (action lua_Alloc) before the call completes.  A refused allocation     *)
(* raises LUA_ERRMEM, which the enclosing protected call catches, or which *)
(* reaches the panic handler and exit() when there is none.                *)
(***************************************************************************)
EXTENDS Integers, Sequences, FiniteSets, TLC

\* ---------------------------------------------------------------- bounds
MaxMemory == 2          \* options->max_memory and request sizes range over 0..MaxMemory
MaxInstructions == 2    \* options->max_instructions ranges over 0..MaxInstructions
MaxArgs == 2            \* options on one command line

\* ------------------------------------------------------- program constants
BYTECODE_MAGIC_NUMBER == 27

\* size_t arithmetic wraps; the width is scaled down with the quota bound so
\* that a wrap lands far outside every value the quota can legitimately take.
SizeMod == 8 * (MaxMemory + 1)

Sizes == 0 .. MaxMemory             \* osize / nsize of one allocator request
SystemMemory == MaxMemory           \* bytes the underlying realloc can hand out

\* fgetc results: EOF, NUL, the bytecode signature, and a source byte
EOF == -1
FirstBytes == {EOF, 0, BYTECODE_MAGIC_NUMBER, 45}

Keys == {"x", "SANDBOX_NAME", "CENSORSCOPE_OPTIONS"}   \* global names scripts read
Nil == 0                            \* absent table entry
Garbage == 0                        \* a Table* that points at no table

VARIABLES
    options,        \* censorscope_options_t handed to sandbox_init
    pc,             \* position of the host code
    available,      \* sandbox->available_memory
    blocks,         \* live blocks of the underlying allocator: size -> how many
    call,           \* the allocator callback that has just returned, if any
    hookcount,      \* L->hookcount (0 when no hook is installed)
    inhook,         \* the interpreter is inside exit_hook
    stack,          \* the VM's value stack above the height it had when the
                    \* operation in progress was called, bottom first
    tables,         \* the VM's tables; tables[1] is the global table
    file,           \* the target file as is_valid_lua_script saw it
    inv,            \* the sandbox_run call in progress (or the last one)
    steps,          \* protocol steps the call in progress has completed
    executed,       \* instructions the count hook has counted in the
                    \* sandbox_run call in progress
    assigned,       \* some script has assigned the global x in its environment
    rc,             \* return value of the last core operation
    errlog,         \* diagnostics the operation in progress has logged
    package_path,   \* package.path of the VM, first entry first
    argv,           \* the command line censorscope_options_init parses
    optind          \* getopt's index of the next element of argv

vars == <<options, pc, available, blocks, call, hookcount, inhook, stack,
          tables, file, inv, steps, executed, assigned, rc, errlog, package_path,
          argv, optind>>

\* The command line and getopt's position in it.
cmdline == <<argv, optind>>

\* ------------------------------------------------------------- allocator
RECURSIVE SumSizes(_, _)
SumSizes(f, S) ==
    IF S = {} THEN 0
    ELSE LET s == CHOOSE x \in S : TRUE IN s * f[s] + SumSizes(f, S \ {s})

\* Bytes in live blocks.
LiveBytes == SumSizes(blocks, DOMAIN blocks)

\* The block heap after a block of osize bytes became one of nsize bytes
\* (size 0: no block).
Resized(heap, osize, nsize) ==
    LET taken == IF osize = 0 THEN heap ELSE [heap EXCEPT ![osize] = @ - 1]
    IN  IF nsize = 0 THEN taken ELSE [taken EXCEPT ![nsize] = @ + 1]

NoCall == [kind |-> "none", osize |-> 0, nsize |-> 0, before |-> 0,
           ret |-> "NULL", realloc |-> FALSE]

\* No quota check at all.
QuotaNeverRefuses(avail, osize, nsize) == FALSE

\* The quota check with the comparison made non-strict: a request for exactly
\* the remaining quota is refused too.
QuotaRefusesAtLimit(avail, osize, nsize) == nsize > osize /\ avail <= nsize - osize

\* sandbox.c:39  nsize > osize && *available < (nsize - osize)
QuotaRefuses(avail, osize, nsize) == nsize > osize /\ avail < nsize - osize

\* A free that credits nothing.
ReclaimNothing(avail, osize) == avail

\* sandbox.c:36  *available += osize
Reclaim(avail, osize) == (avail + osize) % SizeMod

\* Accounting that debits growth but credits nothing when a block shrinks.
AccountGrowthOnly(avail, osize, nsize) ==
    IF nsize > osize THEN (avail - (nsize - osize)) % SizeMod ELSE avail

\* Accounting that debits the whole new size, whatever the block held before.
AccountNewSize(avail, osize, nsize) == (avail - nsize) % SizeMod

\* sandbox.c:45-49
Account(avail, osize, nsize) ==
    IF nsize > osize THEN (avail - (nsize - osize)) % SizeMod
    ELSE (avail + (osize - nsize)) % SizeMod

\* sandbox.c:31-53.  reallocOk is the outcome of the underlying realloc.
\* size is the size of the block afterwards (0: released).
l_alloc_restricted(avail, osize, nsize, reallocOk) ==
    IF nsize = 0 THEN
        [ret |-> "NULL", available |-> Reclaim(avail, osize), size |-> 0,
         realloc |-> FALSE, log |-> <<>>]
    ELSE IF QuotaRefuses(avail, osize, nsize) THEN
        [ret |-> "NULL", available |-> avail, size |-> osize,
         realloc |-> FALSE, log |-> <<"Out of memory!">>]
    ELSE IF reallocOk THEN
        [ret |-> "ptr", available |-> Account(avail, osize, nsize), size |-> nsize,
         realloc |-> TRUE, log |-> <<>>]
    ELSE
        [ret |-> "NULL", available |-> avail, size |-> osize,
         realloc |-> TRUE, log |-> <<>>]

\* The allocator luaL_newstate installs (sandbox.c:134): free or realloc, no quota.
l_alloc(avail, osize, nsize, reallocOk) ==
    IF nsize = 0 THEN
        [ret |-> "NULL", available |-> avail, size |-> 0,
         realloc |-> FALSE, log |-> <<>>]
    ELSE IF reallocOk THEN
        [ret |-> "ptr", available |-> avail, size |-> nsize,
         realloc |-> TRUE, log |-> <<>>]
    ELSE
        [ret |-> "NULL", available |-> avail, size |-> osize,
         realloc |-> TRUE, log |-> <<>>]

\* The quota allocator installed whatever the limit.
RestrictedAlways == TRUE

\* sandbox.c:130  the quota allocator is installed exactly when max_memory > 0
Restricted == options.max_memory > 0

\* ---------------------------------------------------------------- values
FnVal(chunk, env) == [t |-> "function", s |-> chunk, n |-> env]
TabVal(id) == [t |-> "table", s |-> "", n |-> id]
NilVal == [t |-> "nil", s |-> "", n |-> 0]
StrVal == [t |-> "string", s |-> "", n |-> 0]     \* an error message

Top(stk) == stk[Len(stk)]
Pop(stk) == SubSeq(stk, 1, Len(stk) - 1)

EmptyTable == [k \in Keys |-> Nil]
GlobalsTable == 1                       \* LUA_GLOBALSINDEX
OptionsTable == 2                       \* the table sandbox_init fills with the options
EnvTable == 3                           \* the environment table created last; an
                                        \* earlier one is unreachable and collected
NameString == 1                         \* value of SANDBOX_NAME
OptionsRef == 2                         \* value of CENSORSCOPE_OPTIONS

\* The target file of one sandbox_run call: whether fopen succeeds, what fgetc
\* returns (EOF for an empty file or a read error) and whether fclose succeeds.
Files ==
    { f \in [fopen : BOOLEAN, first_byte : FirstBytes, fclose : BOOLEAN] :
        ~f.fopen => (f.first_byte = EOF /\ f.fclose) }
NoFile == [fopen |-> FALSE, first_byte |-> EOF, fclose |-> TRUE]

\* inv.environment: an environment path is given (not NULL).
\* inv.loops: the target chunk never returns nor fails by itself.
NoInvocation == [environment |-> FALSE, loops |-> FALSE]

\* ------------------------------------------------------------ initial state
\* sandbox_init is about to be called on an uninitialised sandbox_t.
Init ==
    /\ options \in [max_memory : 0 .. MaxMemory, max_instructions : 0 .. MaxInstructions]
    /\ pc = "sandbox_init"
    /\ available = 0
    /\ blocks = [s \in 1 .. MaxMemory |-> 0]
    /\ call = NoCall
    /\ hookcount = 0
    /\ inhook = FALSE
    /\ stack = <<>>
    /\ tables = <<>>
    /\ file = NoFile
    /\ inv = NoInvocation
    /\ steps = <<>>
    /\ executed = 0
    /\ assigned = FALSE
    /\ rc = 0
    /\ errlog = <<>>
    /\ package_path = <<>>
    /\ argv = <<>>
    /\ optind = 1

\* Variables of the VM and of the invocation, for UNCHANGED clauses.
vmVars == <<hookcount, inhook, stack, tables, package_path>>
runVars == <<file, inv, steps, executed, assigned>>

\* ------------------------------------------------------------ sandbox_init
\* sandbox.c:130-135  choose the allocator and enter lua_newstate
sandbox_init_newstate ==
    /\ pc = "sandbox_init"
    /\ available' = IF options.max_memory > 0 THEN options.max_memory ELSE available
    /\ pc' = "lua_newstate"
    /\ call' = NoCall
    /\ errlog' = <<>>
    /\ UNCHANGED <<options, cmdline, blocks, vmVars, runVars, rc>>

\* sandbox.c:136-139  lua_newstate returned NULL (its allocations were released)
sandbox_init_nostate ==
    /\ pc = "close_state"
    /\ LiveBytes = 0
    /\ errlog' = Append(errlog, "error calling luaL_newstate")
    /\ rc' = -1
    /\ pc' = "init_failed"
    /\ call' = NoCall
    /\ UNCHANGED <<options, cmdline, available, blocks, vmVars, runVars>>

\* No hook is installed, whatever the limit.
lua_sethook_never(max_instructions) == 0

\* sandbox.c:141-143  lua_sethook(L, exit_hook, LUA_MASKCOUNT, max_instructions)
\* when max_instructions > 0: L->basehookcount and L->hookcount get the count
lua_sethook(max_instructions) ==
    IF max_instructions > 0 THEN max_instructions ELSE 0

\* sandbox.c:136-143  the state exists (it holds memory): install the panic
\* handler and the hook
sandbox_init_sethook ==
    /\ pc = "lua_newstate"
    /\ LiveBytes > 0
    /\ tables' = <<EmptyTable>>
    /\ hookcount' = lua_sethook(options.max_instructions)
    /\ pc' = "init_globals"
    /\ call' = NoCall
    /\ UNCHANGED <<options, cmdline, available, blocks, inhook, stack, package_path,
                   runVars, rc, errlog>>

\* Outcomes of censorscope_options_lua, which fills the table at the stack top.
censorscope_options_lua == {0, -1}

\* sandbox.c:144-152  libraries, SANDBOX_NAME, CENSORSCOPE_OPTIONS
sandbox_init_globals(optres) ==
    /\ pc = "init_globals"
    /\ optres \in censorscope_options_lua
    /\ tables' = << [tables[GlobalsTable] EXCEPT
                         !["SANDBOX_NAME"] = NameString,
                         !["CENSORSCOPE_OPTIONS"] =
                             IF optres = 0 THEN OptionsRef ELSE Nil],
                   EmptyTable >>
    /\ package_path' = <<"./?.lua">>
    /\ IF optres # 0
       THEN /\ stack' = Append(stack, TabVal(OptionsTable))
            /\ errlog' = Append(errlog, "error creating table of censorscope options")
            /\ rc' = -1
            /\ pc' = "init_failed"
       ELSE /\ pc' = "init_path"
            /\ UNCHANGED <<stack, rc, errlog>>
    /\ call' = NoCall
    /\ UNCHANGED <<options, cmdline, available, blocks, hookcount, inhook, runVars>>

\* A path extender that drops the current path when malloc fails.
prepend_package_path_partial(path, new_entry, mallocOk) ==
    IF mallocOk THEN [ret |-> 0, path |-> <<new_entry>> \o path]
    ELSE [ret |-> -1, path |-> <<>>]

\* sandbox.c:109-125  "<new_entry>;<cur_path>", or -1 when malloc fails
prepend_package_path(path, new_entry, mallocOk) ==
    IF mallocOk THEN [ret |-> 0, path |-> <<new_entry>> \o path]
    ELSE [ret |-> -1, path |-> path]

\* sandbox.c:158-168  build "<luasrc_dir>/?.lua" and prepend it to package.path
sandbox_init_path(patternOk, mallocOk) ==
    /\ pc = "init_path"
    /\ ~patternOk => mallocOk
    /\ IF ~patternOk
       THEN /\ rc' = -1
            /\ pc' = "init_failed"
            /\ UNCHANGED <<package_path, errlog>>
       ELSE LET r == prepend_package_path(package_path, "luasrc/?.lua", mallocOk)
            IN  /\ package_path' = r.path
                /\ IF r.ret # 0
                   THEN /\ errlog' = Append(errlog, "error setting packages.path")
                        /\ rc' = -1
                        /\ pc' = "init_failed"
                   ELSE /\ rc' = 0
                        /\ pc' = "idle"
                        /\ UNCHANGED errlog
    /\ call' = NoCall
    /\ UNCHANGED <<options, cmdline, available, blocks, hookcount, inhook, stack, tables, runVars>>

\* sandbox.c:171-174  lua_close starts releasing every block of the state;
\* the VM's stack, tables and hook are gone with it
sandbox_destroy ==
    /\ pc = "idle"
    /\ pc' = "lua_close"
    /\ call' = NoCall
    /\ errlog' = <<>>
    /\ stack' = <<>> /\ tables' = <<>> /\ package_path' = <<>>
    /\ hookcount' = 0
    /\ file' = NoFile /\ inv' = NoInvocation /\ steps' = <<>>
    /\ UNCHANGED <<options, cmdline, available, blocks, inhook, executed, assigned, rc>>

\* sandbox.c:172-173  every block is released: sandbox_destroy returns 0
sandbox_destroy_done ==
    /\ pc = "lua_close"
    /\ LiveBytes = 0
    /\ pc' = "destroyed"
    /\ rc' = 0
    /\ call' = NoCall
    /\ UNCHANGED <<options, cmdline, available, blocks, vmVars, runVars, errlog>>

\* ------------------------------------------------------- error propagation
\* Positions inside a Lua API call, where the VM may call its allocator.
VmActive == {"lua_newstate", "init_globals", "init_path", "load_file", "load_env",
             "pcall_env", "newtable", "pcall_run"}
\* Positions where the VM only releases memory (close_state, lua_close).
VmClosing == {"close_state", "lua_close"}
\* Positions inside lua_pcall (sandbox.c:197, 213).
InPcall == {"pcall_env", "pcall_run"}
\* Positions inside luaL_loadfile (sandbox.c:184, 190).
InLoad == {"load_file", "load_env"}

\* sandbox.c:16-21 and luaD_throw without an error handler: the panic function
\* logs and returns, then the VM calls exit(EXIT_FAILURE); the VM is gone with
\* the process.
panic(log) ==
    /\ errlog' = log \o <<"PANIC: unprotected error in call to Lua API">>
    /\ pc' = "exited"
    /\ stack' = <<>> /\ tables' = <<>> /\ package_path' = <<>>
    /\ hookcount' = 0
    /\ UNCHANGED <<inhook, rc, executed>>

\* sandbox.c:197-200, 213-218  lua_pcall returned non-zero: the function slot
\* holds the error message, which is logged, and sandbox_run returns -1.
pcall_failed(log, msg) ==
    /\ stack' = Append(Pop(stack), StrVal)
    /\ errlog' = Append(log, msg)
    /\ rc' = -1
    /\ pc' = "idle"
    /\ inhook' = FALSE
    /\ executed' = 0
    /\ UNCHANGED <<tables, package_path, hookcount>>

\* sandbox.c:184-187, 190-193  luaL_loadfile returned non-zero: the message is
\* pushed and logged, and sandbox_run returns -1.
loadfile_failed(log, msg) ==
    /\ stack' = Append(stack, StrVal)
    /\ errlog' = Append(log, msg)
    /\ rc' = -1
    /\ pc' = "idle"
    /\ UNCHANGED <<inhook, executed, tables, package_path, hookcount>>

\* The VM calls its allocator f(ud, ptr, osize, nsize) on a block of osize
\* bytes (0: no block); osize is the block's current size (Lua 5.1 lua_Alloc
\* contract).  The underlying realloc succeeds when the system has the memory
\* and reallocOk.  A NULL result for nsize > 0 raises LUA_ERRMEM.  `protected`
\* tells, inside luaL_loadfile, whether the request comes from the protected
\* parser or from the unprotected pushes around it.
lua_Alloc(osize, nsize, reallocOk, protected) ==
    /\ pc \in VmActive \cup VmClosing
    /\ pc \in VmClosing => nsize = 0
    /\ osize > 0 \/ nsize > 0
    /\ osize > 0 => blocks[osize] > 0
    /\ nsize = 0 => reallocOk
    /\ pc \notin InLoad => protected
    /\ LET fits == LiveBytes - osize + nsize <= SystemMemory
           r == IF Restricted
                THEN l_alloc_restricted(available, osize, nsize, reallocOk /\ fits)
                ELSE l_alloc(available, osize, nsize, reallocOk /\ fits)
           log == errlog \o r.log
       IN  /\ blocks' = Resized(blocks, osize, r.size)
           /\ available' = r.available
           /\ call' = [kind |-> IF Restricted THEN "restricted" ELSE "default",
                       osize |-> osize, nsize |-> nsize, before |-> available,
                       ret |-> r.ret, realloc |-> r.realloc]
           /\ IF r.ret = "NULL" /\ nsize > 0
              THEN IF pc = "lua_newstate"
                   THEN /\ pc' = "close_state"
                        /\ errlog' = log
                        /\ UNCHANGED <<stack, inhook, rc, executed, tables,
                                       package_path, hookcount>>
                   ELSE IF pc \in InPcall
                   THEN pcall_failed(log, "not enough memory")
                   ELSE IF pc \in InLoad /\ protected
                   THEN loadfile_failed(log, "not enough memory")
                   ELSE panic(log)
              ELSE /\ errlog' = log
                   /\ UNCHANGED <<pc, stack, inhook, rc, executed, tables,
                                  package_path, hookcount>>
    /\ UNCHANGED <<options, cmdline, file, inv, steps, assigned>>

\* -------------------------------------------------------------- validator
\* The validator without the comparison with BYTECODE_MAGIC_NUMBER.
is_valid_lua_script_any(f) ==
    IF ~f.fopen THEN [ret |-> 0, log |-> <<"fopen error">>]
    ELSE IF ~f.fclose THEN [ret |-> 0, log |-> <<"fgetc error">>]
    ELSE IF f.first_byte = 0 THEN [ret |-> 0, log |-> <<>>]
    ELSE [ret |-> 1, log |-> <<>>]

\* sandbox.c:77-97  1 when the file may be loaded, 0 otherwise
is_valid_lua_script(f) ==
    IF ~f.fopen THEN [ret |-> 0, log |-> <<"fopen error">>]
    ELSE IF ~f.fclose THEN [ret |-> 0, log |-> <<"fgetc error">>]
    ELSE IF f.first_byte = 0 THEN [ret |-> 0, log |-> <<>>]
    ELSE IF f.first_byte = BYTECODE_MAGIC_NUMBER
    THEN [ret |-> 0, log |-> <<"for security, we do not evaluate Lua bytecode">>]
    ELSE [ret |-> 1, log |-> <<>>]

\* ------------------------------------------------------------- sandbox_run
\* sandbox.c:176-181  a call of sandbox_run: validate the target file
sandbox_run_validate(f, environment) ==
    /\ pc = "idle"
    /\ f \in Files
    /\ file' = f
    /\ inv' = [environment |-> environment, loops |-> FALSE]
    /\ executed' = 0
    /\ stack' = <<>>
    /\ LET v == is_valid_lua_script(f)
       IN  /\ errlog' = v.log
           /\ IF v.ret = 0
              THEN /\ rc' = -1
                   /\ pc' = "idle"
                   /\ steps' = <<>>
              ELSE /\ pc' = "load_file"
                   /\ steps' = <<"validate">>
                   /\ UNCHANGED rc
    /\ call' = NoCall
    /\ UNCHANGED <<options, cmdline, available, blocks, hookcount, inhook, tables,
                   package_path, assigned>>

\* sandbox.c:184-187  luaL_loadfile(filename): push the compiled chunk, whose
\* environment is the global table, or fail with the loader's message
sandbox_run_load(ok) ==
    /\ pc = "load_file"
    /\ IF ok
       THEN /\ stack' = Append(stack, FnVal("target", GlobalsTable))
            /\ steps' = Append(steps, "load")
            /\ pc' = IF inv.environment THEN "load_env" ELSE "newtable"
            /\ UNCHANGED <<rc, errlog, inhook, executed, tables, package_path,
                           hookcount>>
       ELSE /\ loadfile_failed(errlog, "cannot load file")
            /\ UNCHANGED steps
    /\ file' = NoFile
    /\ call' = NoCall
    /\ UNCHANGED <<options, cmdline, available, blocks, inv, assigned>>

\* The chunk luaL_loadfile makes of the environment file: a file that starts
\* with the bytecode signature is undumped as a precompiled chunk.
EnvChunk(first_byte) ==
    IF first_byte = BYTECODE_MAGIC_NUMBER THEN "environment (precompiled)"
    ELSE "environment"

\* The environment file put through is_valid_lua_script before it is loaded.
sandbox_run_load_env_validated(ok, first_byte) ==
    /\ pc = "load_env"
    /\ first_byte \in FirstBytes
    /\ first_byte = 0 => ~ok
    /\ LET v == is_valid_lua_script([fopen |-> TRUE, first_byte |-> first_byte,
                                     fclose |-> TRUE])
       IN  IF v.ret = 0
           THEN /\ errlog' = errlog \o v.log
                /\ rc' = -1
                /\ pc' = "idle"
                /\ UNCHANGED <<stack, inhook, executed, tables, package_path,
                               hookcount>>
           ELSE IF ok
           THEN /\ stack' = Append(stack, FnVal(EnvChunk(first_byte), GlobalsTable))
                /\ pc' = "pcall_env"
                /\ UNCHANGED <<rc, errlog, inhook, executed, tables,
                               package_path, hookcount>>
           ELSE loadfile_failed(errlog, "cannot load file")
    /\ call' = NoCall
    /\ UNCHANGED <<options, cmdline, available, blocks, file, inv, steps, assigned>>

\* sandbox.c:188-193  luaL_loadfile(environment) on a file with this first
\* byte (EOF: an empty file).  The parser fails on a NUL byte.
sandbox_run_load_env(ok, first_byte) ==
    /\ pc = "load_env"
    /\ first_byte \in FirstBytes
    /\ first_byte = 0 => ~ok
    /\ IF ok
       THEN /\ stack' = Append(stack, FnVal(EnvChunk(first_byte), GlobalsTable))
            /\ pc' = "pcall_env"
            /\ UNCHANGED <<rc, errlog, inhook, executed, tables, package_path,
                           hookcount>>
       ELSE loadfile_failed(errlog, "cannot load file")
    /\ call' = NoCall
    /\ UNCHANGED <<options, cmdline, available, blocks, file, inv, steps, assigned>>

\* A table just created, holding `contents`: it takes the place of the
\* environment table created before it.
NewTable(tabs, contents) ==
    [tables |-> <<tabs[GlobalsTable], tabs[OptionsTable], contents>>,
     value |-> TabVal(EnvTable)]

\* No table is created: the global table is pushed.
lua_pushglobals(tabs) == [tables |-> tabs, value |-> TabVal(GlobalsTable)]

\* sandbox.c:203  lua_newtable: a new empty table, pushed
lua_newtable(tabs) == NewTable(tabs, EmptyTable)

\* sandbox.c:201-204  no environment path: create an empty environment
sandbox_run_newtable ==
    /\ pc = "newtable"
    /\ LET r == lua_newtable(tables)
       IN  /\ tables' = r.tables
           /\ stack' = Append(stack, r.value)
    /\ steps' = Append(steps, "environment")
    /\ pc' = "setfenv"
    /\ call' = NoCall
    /\ UNCHANGED <<options, cmdline, available, blocks, hookcount, inhook, package_path,
                   file, inv, executed, assigned, rc, errlog>>

\* What the environment chunk returns: a new table holding x = 5, or no value
\* (lua_pcall pads the single result with nil).
EnvResults == {"x5", "nil"}

\* sandbox.c:195-200  the environment chunk returns: lua_pcall(L, 0, 1, 0)
\* replaces it on the stack with its single result
sandbox_run_env_returns(res) ==
    /\ pc = "pcall_env"
    /\ ~inhook
    /\ res \in EnvResults
    /\ IF res = "nil"
       THEN /\ stack' = Append(Pop(stack), NilVal)
            /\ UNCHANGED tables
       ELSE LET r == NewTable(tables, [EmptyTable EXCEPT !["x"] = 5])
            IN  /\ tables' = r.tables
                /\ stack' = Append(Pop(stack), r.value)
    /\ steps' = Append(steps, "environment")
    /\ pc' = "setfenv"
    /\ call' = NoCall
    /\ UNCHANGED <<options, cmdline, available, blocks, hookcount, inhook, package_path,
                   file, inv, executed, assigned, rc, errlog>>

\* lua_setfenv(L, idx): pop the table at the top and make it the environment
\* of the function at idx; 0 when the value at idx cannot have an environment.
\* The popped value must be a table: lua_setfenv stores its pointer unchecked.
lua_setfenv(stk, idx) ==
    LET i == Len(stk) + 1 + idx
        env == IF Top(stk).t = "table" THEN Top(stk).n ELSE Garbage
    IN  IF stk[i].t = "function"
        THEN [ret |-> 1, stack |-> Pop([stk EXCEPT ![i].n = env])]
        ELSE [ret |-> 0, stack |-> Pop(stk)]

\* Outcomes of using a pointer that points at no table.
Undefined == {"crash", "continue"}

\* sandbox.c:206-211  bind the environment to the loaded target chunk.  Whether
\* the target chunk loops forever shows from here on.
sandbox_run_setfenv(ub, loops) ==
    /\ pc = "setfenv"
    /\ ub \in Undefined
    /\ Top(stack).t = "table" => ub = "continue"
    /\ LET r == lua_setfenv(stack, -2)
       IN  IF ub = "crash"
           THEN /\ pc' = "crashed"
                /\ ~loops
                /\ UNCHANGED <<stack, steps, rc, errlog, inv>>
           ELSE /\ stack' = r.stack
                /\ IF r.ret # 1
                   THEN /\ errlog' = Append(errlog, "lua_setfenv")
                        /\ rc' = -1
                        /\ pc' = "idle"
                        /\ ~loops
                        /\ UNCHANGED <<steps, inv>>
                   ELSE /\ steps' = Append(steps, "bind")
                        /\ pc' = "pcall_run"
                        /\ inv' = [inv EXCEPT !.loops = loops]
                        /\ UNCHANGED <<rc, errlog>>
    /\ call' = NoCall
    /\ UNCHANGED <<options, cmdline, available, blocks, hookcount, inhook, tables,
                   package_path, file, executed, assigned>>

\* ------------------------------------------------------------- interpreter
\* The chunk the protected call is running: the function in the call's slot.
Running == Top(stack)

\* Instructions of a chunk.  The environment chunk and a target that loops
\* forever only jump; a terminating target also reads and assigns globals.
Ops == {"JMP", "GETGLOBAL", "SETGLOBAL"}
Written == 7                            \* the value target scripts assign

\* GETGLOBAL k: the value the running chunk reads for the global k
GetGlobal(k) == tables[Running.n][k]

\* SETGLOBAL x: the tables after the running chunk assigned the global x
SetGlobal(tabs, env) == [tabs EXCEPT ![env]["x"] = Written]

\* sandbox.c:63-68  the hook returns for any event but the count event, and
\* raises "instruction limit reached" for that one
exit_hook(event) ==
    IF event # "LUA_HOOKCOUNT" THEN "return" ELSE "instruction limit reached"

\* One turn of the interpreter loop.  With the count hook installed the VM
\* first decrements L->hookcount and, at 0, resets it to the base count and
\* calls the hook instead of executing; the count is not reset anywhere else.
\* A global access through an environment pointer that points at no table is
\* undefined: the process crashes, or goes on (a write is then lost).
luaV_execute(op, ub) ==
    /\ pc \in InPcall
    /\ ~inhook
    /\ (pc = "pcall_env" \/ inv.loops) => op = "JMP"
    /\ (op = "JMP" \/ Running.n # Garbage) => ub = "continue"
    /\ executed' = IF hookcount > 0 THEN executed + 1 ELSE executed
    /\ call' = NoCall
    /\ IF hookcount > 0 /\ hookcount - 1 = 0
       THEN /\ hookcount' = options.max_instructions
            /\ inhook' = TRUE
            /\ ub = "continue"
            /\ UNCHANGED <<pc, tables>>
       ELSE /\ hookcount' = IF hookcount > 0 THEN hookcount - 1 ELSE hookcount
            /\ UNCHANGED inhook
            /\ IF ub = "crash"
               THEN /\ pc' = "crashed"
                    /\ UNCHANGED tables
               ELSE /\ tables' = IF op = "SETGLOBAL" /\ Running.n # Garbage
                                 THEN SetGlobal(tables, Running.n)
                                 ELSE tables
                    /\ UNCHANGED pc
    /\ assigned' = (assigned \/ tables' # tables)
    /\ UNCHANGED <<options, cmdline, available, blocks, stack, package_path, file, inv,
                   steps, rc, errlog>>

\* sandbox.c:63-68  the interpreter is in the hook, called for the count event
\* (the only event of the mask LUA_MASKCOUNT): luaL_error unwinds to lua_pcall
exit_hook_called ==
    /\ pc \in InPcall
    /\ inhook
    /\ LET h == exit_hook("LUA_HOOKCOUNT")
       IN  IF h = "return"
           THEN /\ inhook' = FALSE
                /\ UNCHANGED <<pc, stack, rc, errlog, executed, tables,
                               package_path, hookcount>>
           ELSE pcall_failed(errlog, h)
    /\ call' = NoCall
    /\ UNCHANGED <<options, cmdline, available, blocks, file, inv, steps, assigned>>

\* A chunk raises a run-time error of its own (sandbox.c:197-200, 213-218)
chunk_error ==
    /\ pc \in InPcall
    /\ ~inhook
    /\ pc = "pcall_run" => ~inv.loops
    /\ pcall_failed(errlog, "runtime error")
    /\ call' = NoCall
    /\ UNCHANGED <<options, cmdline, available, blocks, file, inv, steps, assigned>>

\* sandbox.c:212-220  the target chunk returns: lua_pcall(L, 0, 1, 0) leaves
\* its single result, and sandbox_run returns 0
sandbox_run_returns ==
    /\ pc = "pcall_run"
    /\ ~inhook
    /\ ~inv.loops
    /\ stack' = Append(Pop(stack), NilVal)
    /\ steps' = Append(steps, "invoke")
    /\ executed' = 0
    /\ rc' = 0
    /\ pc' = "idle"
    /\ call' = NoCall
    /\ UNCHANGED <<options, cmdline, available, blocks, hookcount, inhook, tables,
                   package_path, file, inv, assigned, errlog>>

\* ----------------------------------------------------------- specification
Next ==
    \/ sandbox_init_newstate
    \/ sandbox_init_nostate
    \/ sandbox_init_sethook
    \/ \E optres \in censorscope_options_lua : sandbox_init_globals(optres)
    \/ \E patternOk, mallocOk \in BOOLEAN : sandbox_init_path(patternOk, mallocOk)
    \/ \E osize, nsize \in Sizes, reallocOk, protected \in BOOLEAN :
          lua_Alloc(osize, nsize, reallocOk, protected)
    \/ \E f \in Files, environment \in BOOLEAN : sandbox_run_validate(f, environment)
    \/ \E ok \in BOOLEAN : sandbox_run_load(ok)
    \/ \E ok \in BOOLEAN, first_byte \in FirstBytes :
          sandbox_run_load_env(ok, first_byte)
    \/ sandbox_run_newtable
    \/ \E res \in EnvResults : sandbox_run_env_returns(res)
    \/ \E ub \in Undefined, loops \in BOOLEAN : sandbox_run_setfenv(ub, loops)
    \/ \E op \in Ops, ub \in Undefined : luaV_execute(op, ub)
    \/ exit_hook_called
    \/ chunk_error
    \/ sandbox_run_returns
    \/ sandbox_destroy
    \/ sandbox_destroy_done

Spec == Init /\ [][Next]_vars

\* The interpreter keeps running while a chunk is executing: its loop and the
\* hook it calls are not suspended from outside (the VM is single-threaded and
\* synchronous).
Interpreter ==
    \/ \E op \in Ops, ub \in Undefined : luaV_execute(op, ub)
    \/ exit_hook_called

FairSpec == Spec /\ WF_vars(Interpreter)

\* ----------------------------------------------- censorscope_options_init
\* strtol's long, scaled down: LONG_MIN = -LONG_MAX - 1
LONG_MAX == 7

\* Characters of a numeric option argument: a sign, a digit, anything else.
Chars == {"-", "1", "x"}
Optargs == UNION {[1 .. n -> Chars] : n \in 0 .. 2}

\* One option of the command line as getopt_long returns it: the option
\* character ("?" for an unknown option) and optarg.
Options ==
    [c : {"i", "m"}, optarg : Optargs]
        \cup [c : {"l", "s"}, optarg : {<<"d">>}]
        \cup [c : {"h", "?"}, optarg : {<<>>}]
CommandLines == UNION {[1 .. n -> Options] : n \in 0 .. MaxArgs}

\* Number of leading digits of str.
RECURSIVE Digits(_)
Digits(str) ==
    IF str # <<>> /\ Head(str) = "1" THEN 1 + Digits(Tail(str)) ELSE 0

\* Value of a string of n digits "1", base 10.
RECURSIVE Decimal(_)
Decimal(n) == IF n = 0 THEN 0 ELSE 10 * Decimal(n - 1) + 1

\* options.c:67, 91  strtol(optarg, &first_invalid, 10): an optional sign, then
\* digits.  Without digits nothing is converted and first_invalid is optarg;
\* a value out of range is clamped and sets errno.
strtol(str) ==
    LET neg == str # <<>> /\ Head(str) = "-"
        body == IF neg THEN Tail(str) ELSE str
        n == Digits(body)
        mag == Decimal(n)
        limit == IF neg THEN LONG_MAX + 1 ELSE LONG_MAX
    IN  IF n = 0 THEN [value |-> 0, first_invalid |-> str, errno |-> FALSE]
        ELSE [value |-> IF mag > limit THEN (IF neg THEN -limit ELSE limit)
                        ELSE IF neg THEN -mag ELSE mag,
              first_invalid |-> SubSeq(body, n + 1, Len(body)),
              errno |-> mag > limit]

\* censorscope_options_init is about to be called on an uninitialised
\* censorscope_options_t.
OptionsInit ==
    /\ argv \in CommandLines
    /\ optind = 1
    /\ options = [max_memory |-> 0, max_instructions |-> 0,
                  luasrc_dir |-> "", sandbox_dir |-> ""]
    /\ pc = "options_init"
    /\ available = 0
    /\ blocks = [s \in 1 .. MaxMemory |-> 0]
    /\ call = NoCall
    /\ hookcount = 0
    /\ inhook = FALSE
    /\ stack = <<>>
    /\ tables = <<>>
    /\ file = NoFile
    /\ inv = NoInvocation
    /\ steps = <<>>
    /\ executed = 0
    /\ assigned = FALSE
    /\ rc = 0
    /\ errlog = <<>>
    /\ package_path = <<>>

\* options.c:123-127  both directory strings are freed ("" is no string)
censorscope_options_destroy(o) ==
    [o EXCEPT !.luasrc_dir = "", !.sandbox_dir = ""]

\* Variables the option parser does not touch.
coreVars == <<available, blocks, call, vmVars, runVars>>

\* options.c:24-36  the defaults; a failed strdup returns -1
censorscope_options_init_defaults(strdupOk) ==
    /\ pc = "options_init"
    /\ IF strdupOk
       THEN /\ options' = [max_memory |-> 0, max_instructions |-> 0,
                           luasrc_dir |-> "luasrc", sandbox_dir |-> "sandbox"]
            /\ pc' = "getopt"
            /\ UNCHANGED <<rc, errlog>>
       ELSE /\ errlog' = Append(errlog, "stdrup")
            /\ rc' = -1
            /\ pc' = "options_returned"
            /\ UNCHANGED options
    /\ UNCHANGED <<cmdline, coreVars>>

\* options.c:49-56, 120  getopt_long returns -1: every option is parsed
censorscope_options_init_done ==
    /\ pc = "getopt"
    /\ optind > Len(argv)
    /\ rc' = 0
    /\ pc' = "options_returned"
    /\ UNCHANGED <<options, cmdline, errlog, coreVars>>

\* options.c:65-77, 89-102  -i and -m: the result of strtol is stored, then
\* errno and first_invalid are tested
censorscope_options_init_number ==
    /\ pc = "getopt"
    /\ optind <= Len(argv)
    /\ argv[optind].c \in {"i", "m"}
    /\ LET r == strtol(argv[optind].optarg)
           stored == IF argv[optind].c = "i"
                     THEN [options EXCEPT !.max_instructions = r.value]
                     ELSE [options EXCEPT !.max_memory = r.value]
       IN  /\ options' = IF r.errno \/ (r.first_invalid # <<>> /\ argv[optind].c = "m")
                         THEN censorscope_options_destroy(stored)
                         ELSE stored
           /\ IF r.errno
              THEN /\ errlog' = Append(errlog, "strtol")
                   /\ rc' = -1
                   /\ pc' = "options_returned"
              ELSE IF r.first_invalid # <<>>
              THEN /\ errlog' = Append(errlog,
                                       IF argv[optind].c = "i"
                                       THEN "Invalid instruction count."
                                       ELSE "Invalid max memory.")
                   /\ rc' = -1
                   /\ pc' = "options_returned"
              ELSE UNCHANGED <<pc, rc, errlog>>
    /\ optind' = optind + 1
    /\ UNCHANGED <<argv, coreVars>>

\* options.c:79-87, 104-112  -l and -s: the argument replaces the directory;
\* a failed strdup returns -1
censorscope_options_init_dir(strdupOk) ==
    /\ pc = "getopt"
    /\ optind <= Len(argv)
    /\ argv[optind].c \in {"l", "s"}
    /\ IF strdupOk
       THEN /\ options' = IF argv[optind].c = "l"
                          THEN [options EXCEPT !.luasrc_dir = "d"]
                          ELSE [options EXCEPT !.sandbox_dir = "d"]
            /\ UNCHANGED <<pc, rc, errlog>>
       ELSE /\ options' = censorscope_options_destroy(options)
            /\ errlog' = Append(errlog, "strdup")
            /\ rc' = -1
            /\ pc' = "options_returned"
    /\ optind' = optind + 1
    /\ UNCHANGED <<argv, coreVars>>

\* options.c:60-63, 114-116  -h and unknown options print the usage and exit
censorscope_options_init_usage ==
    /\ pc = "getopt"
    /\ optind <= Len(argv)
    /\ argv[optind].c \in {"h", "?"}
    /\ errlog' = Append(errlog, "Usage")
    /\ pc' = "exited"
    /\ optind' = optind + 1
    /\ options' = IF argv[optind].c = "h"
                  THEN censorscope_options_destroy(options)
                  ELSE options
    /\ UNCHANGED <<argv, rc, coreVars>>

OptionsNext ==
    \/ \E strdupOk \in BOOLEAN : censorscope_options_init_defaults(strdupOk)
    \/ censorscope_options_init_done
    \/ censorscope_options_init_number
    \/ \E strdupOk \in BOOLEAN : censorscope_options_init_dir(strdupOk)
    \/ censorscope_options_init_usage

OptionsSpec == OptionsInit /\ [][OptionsNext]_vars

\* -------------------------------------------------------------- properties
\* The step is a callback of the quota allocator (call' describes it).
QuotaCallback == call'.kind = "restricted"

\* C1: with the quota allocator installed, a request with nsize > osize and
\* remaining quota < nsize - osize returns NULL without calling realloc and
\* leaves the quota and the blocks as they were; a growth request of exactly
\* the remaining quota reaches realloc; and the bytes granted never exceed Q.
C1_QuotaRefusal ==
    /\ [][(QuotaCallback /\ call'.nsize > call'.osize)
            => IF available < call'.nsize - call'.osize
               THEN /\ call'.ret = "NULL"
                    /\ ~call'.realloc
                    /\ available' = available
                    /\ blocks' = blocks
               ELSE call'.realloc]_vars
    /\ [](Restricted => LiveBytes <= options.max_memory)

\* A block of a full quota exists and a request to grow another one was refused.
C1_Witness ==
    /\ call.kind = "restricted"
    /\ call.osize > 0 /\ call.nsize > call.osize
    /\ call.before < call.nsize - call.osize
    /\ call.ret = "NULL" /\ ~call.realloc

\* C2: a free request (nsize = 0) on a block of osize bytes succeeds in every
\* state of the quota allocator: the block is released, no error is raised,
\* and the remaining quota grows by exactly osize.
C2_FreeCredits ==
    [][(QuotaCallback /\ call'.nsize = 0)
        => /\ available' = available + call'.osize
           /\ blocks' = [blocks EXCEPT ![call'.osize] = @ - 1]
           /\ ~call'.realloc
           /\ pc' = pc /\ errlog' = errlog]_vars

\* A block was freed while the quota was exhausted.
C2_Witness ==
    /\ call.kind = "restricted"
    /\ call.nsize = 0 /\ call.osize > 0
    /\ call.before = 0
    /\ available = call.osize

\* C3: a non-free request that passes the quota check reaches realloc; when
\* realloc succeeds the quota goes down by nsize - osize (growth) or up by
\* osize - nsize (shrink) and the block has the new size; when realloc fails
\* NULL is returned and the quota and the blocks are left as they were.
C3_ResizeAccounting ==
    [][(/\ QuotaCallback
        /\ call'.nsize > 0
        /\ ~(call'.nsize > call'.osize /\ available < call'.nsize - call'.osize))
        => /\ call'.realloc
           /\ IF call'.ret = "ptr"
              THEN /\ call'.nsize > call'.osize
                        => available' = available - (call'.nsize - call'.osize)
                   /\ call'.nsize < call'.osize
                        => available' = available + (call'.osize - call'.nsize)
                   /\ call'.nsize = call'.osize => available' = available
                   /\ LiveBytes' = LiveBytes + call'.nsize - call'.osize
                   /\ blocks'[call'.nsize] > 0
              ELSE /\ call'.ret = "NULL"
                   /\ available' = available
                   /\ blocks' = blocks]_vars

\* A block was shrunk and the difference credited.
C3_Witness ==
    /\ call.kind = "restricted"
    /\ call.nsize > 0 /\ call.nsize < call.osize
    /\ call.ret = "ptr"
    /\ available = call.before + (call.osize - call.nsize)

\* C4: once sandbox_init has set the quota of a sandbox with max_memory > 0,
\* the remaining quota stays within 0 .. max_memory (the size_t counter never
\* wraps below 0), and only an allocator callback changes it.
C4_QuotaInvariant ==
    /\ []((Restricted /\ pc # "sandbox_init")
            => (available >= 0 /\ available <= options.max_memory))
    /\ [][(pc # "sandbox_init" /\ available' # available) => call' # NoCall]_vars

\* During a run a granted request used the quota up to the last byte.
C4_Witness ==
    /\ Restricted
    /\ pc = "pcall_run"
    /\ call.kind = "restricted" /\ call.ret = "ptr"
    /\ call.before > 0
    /\ available = 0

\* C5: with max_instructions = N > 0, a target chunk that loops forever does
\* not keep sandbox_run from returning: the protected call is left with an
\* error and sandbox_run returns -1; the count hook raises "instruction limit
\* reached" when it is called; and it is called before the chunk has run more
\* than N instructions.
C5_LoopTerminates ==
    /\ (pc = "pcall_run" /\ inv.loops /\ options.max_instructions > 0)
          ~> (pc = "idle" /\ rc = -1)
    /\ [][(pc \in InPcall /\ inhook /\ call' = NoCall)
            => /\ pc' = "idle" /\ rc' = -1
               /\ errlog' = Append(errlog, "instruction limit reached")]_vars
    /\ [](executed <= options.max_instructions)

\* A looping target chunk was stopped by the count hook.
C5_Witness ==
    /\ pc = "idle" /\ rc = -1
    /\ inv.loops
    /\ options.max_instructions > 0
    /\ steps = <<"validate", "load", "environment", "bind">>
    /\ errlog = <<"instruction limit reached">>

\* The step is is_valid_lua_script's part of a sandbox_run call.
Validated == pc = "idle" /\ pc' # "lua_close"

\* C6: for a target file that is opened, read and closed without error, the
\* verdict follows from the first byte: 27 is rejected with the bytecode
\* diagnostic and 0 is rejected, both without any load step; every other byte
\* is accepted and sandbox_run goes on to load the file.
C6_FirstByteVerdict ==
    [][(Validated /\ file'.fopen /\ file'.fclose /\ file'.first_byte # EOF)
        => IF file'.first_byte = BYTECODE_MAGIC_NUMBER
           THEN /\ pc' = "idle" /\ rc' = -1 /\ steps' = <<>>
                /\ errlog' = <<"for security, we do not evaluate Lua bytecode">>
           ELSE IF file'.first_byte = 0
           THEN /\ pc' = "idle" /\ rc' = -1 /\ steps' = <<>>
                /\ errlog' = <<>>
           ELSE /\ pc' = "load_file" /\ steps' = <<"validate">>]_vars

\* A file starting with the bytecode signature was rejected before any load.
C6_Witness ==
    /\ pc = "idle" /\ rc = -1 /\ steps = <<>>
    /\ file.fopen /\ file.fclose
    /\ file.first_byte = BYTECODE_MAGIC_NUMBER

\* C7: a target file that cannot be opened, or whose first byte cannot be read
\* (fgetc yields EOF), is rejected: sandbox_run never goes on to load it.
C7_IoFailureRejected ==
    pc = "load_file" => (file.fopen /\ file.first_byte # EOF)

Order == <<"validate", "load", "environment", "bind", "invoke">>

\* C8: the steps of one sandbox_run are taken in the order validate, load,
\* environment, bind, invoke; the target runs only after the first four; the
\* call returns 0 only after the invoke step; and a call that does not
\* complete returns -1 to its caller: the process does not end inside it.
C8_ProtocolOrder ==
    /\ \E n \in 0 .. Len(Order) : steps = SubSeq(Order, 1, n)
    /\ pc = "pcall_run" => steps = SubSeq(Order, 1, 4)
    /\ (pc = "idle" /\ steps # <<>>) => (rc = 0 <=> steps = Order)
    /\ (pc = "idle" /\ steps # <<>> /\ rc # 0) => rc = -1
    /\ pc \in {"exited", "crashed"} => steps = <<>>

\* C9: in a sandbox_run without environment path the environment bound to the
\* target is the table lua_newtable has just created: it is empty when bound,
\* it is not the global table, and no script's assignment ever lands in the
\* global table, whatever earlier runs assigned.
C9_NoGlobalLeak ==
    /\ (pc = "setfenv" /\ ~inv.environment)
          => /\ Top(stack) = TabVal(EnvTable)
             /\ tables[EnvTable] = EmptyTable
    /\ (pc = "pcall_run" /\ ~inv.environment)
          => /\ Running.n = EnvTable
             /\ EnvTable # GlobalsTable
             /\ tables[GlobalsTable]["x"] = Nil

\* An earlier run assigned x; the run in progress, given no environment path,
\* reads x as absent.
C9_Witness ==
    /\ pc = "pcall_run" /\ ~inv.environment
    /\ assigned
    /\ Running.n = EnvTable
    /\ GetGlobal("x") = Nil

\* C10: while the target runs, its globals resolve through the environment
\* table of the invocation: x reads as 5 (or as what the target assigned) with
\* an environment chunk, and the names sandbox_init injected read as absent
\* without one.
C10_GlobalsThroughEnvironment ==
    pc = "pcall_run"
      => /\ Running.n = EnvTable
         /\ inv.environment => GetGlobal("x") \in {5, Written}
         /\ ~inv.environment
              => /\ GetGlobal("SANDBOX_NAME") = Nil
                 /\ GetGlobal("CENSORSCOPE_OPTIONS") = Nil

\* C11: with the quota allocator installed, no refused allocation during
\* sandbox_init or sandbox_run ends the process: the operation returns to its
\* caller and the panic handler's exit is never reached.
C11_NoProcessExit ==
    Restricted => pc # "exited"

C13_FailureLogged ==
    (pc \in {"idle", "init_failed"} /\ rc = -1) => errlog # <<>>

\* C14: the allocator callbacks are those of the quota allocator exactly when
\* max_memory > 0, and the count hook is armed exactly when max_instructions
\* > 0; with max_memory = 0 no request is refused before realloc and "Out of
\* memory!" is never logged; with max_instructions = 0 the hook is never
\* called and no operation logs "instruction limit reached".
C14_ZeroIsUnlimited ==
    /\ call # NoCall
         => (call.kind = "restricted" <=> options.max_memory > 0)
    /\ options.max_memory = 0
         => /\ (call # NoCall /\ call.nsize > 0) => call.realloc
            /\ \A i \in 1 .. Len(errlog) : errlog[i] # "Out of memory!"
    /\ pc \in {"init_globals", "init_path", "idle", "load_file", "load_env",
               "pcall_env", "newtable", "setfenv", "pcall_run"}
         => (hookcount > 0 <=> options.max_instructions > 0)
    /\ options.max_instructions = 0
         => /\ hookcount = 0 /\ ~inhook
            /\ \A i \in 1 .. Len(errlog) : errlog[i] # "instruction limit reached"

\* In a sandbox without limits a running target was granted the last byte
\* the underlying allocator can give.
C14_Witness ==
    /\ options.max_memory = 0 /\ options.max_instructions = 0
    /\ pc = "pcall_run"
    /\ LiveBytes = SystemMemory
    /\ call.kind = "default" /\ call.ret = "ptr"

\* C16: the target file has passed is_valid_lua_script whenever sandbox_run
\* is about to load it, and the environment file is loaded unvalidated: the
\* step that loads it either pushes the chunk or fails with the loader's
\* message, whatever the file's first byte.
C16_OnlyTargetValidated ==
    /\ [](pc = "load_file"
            => /\ steps = <<"validate">>
               /\ file.fopen /\ file.fclose
               /\ file.first_byte \notin {0, BYTECODE_MAGIC_NUMBER})
    /\ [][(pc = "load_env" /\ call' = NoCall)
            => \/ /\ pc' = "pcall_env"
                  /\ errlog' = errlog
               \/ /\ pc' = "idle" /\ rc' = -1
                  /\ errlog' = Append(errlog, "cannot load file")]_vars

\* An environment file starting with the bytecode signature was loaded and
\* its chunk is being evaluated.
C16_Witness ==
    /\ pc = "pcall_env"
    /\ Running.s = "environment (precompiled)"

\* C17: from the moment sandbox_init has set the quota of a sandbox with
\* max_memory = Q > 0, remaining quota + bytes in live blocks = Q; once
\* sandbox_destroy has released every block the remaining quota is Q again.
C17_Conservation ==
    /\ (Restricted /\ pc # "sandbox_init")
         => available + LiveBytes = options.max_memory
    /\ (Restricted /\ pc = "destroyed")
         => (LiveBytes = 0 /\ available = options.max_memory)

\* A sandbox with a quota ran a target that assigned a global, then was
\* destroyed.
C17_Witness ==
    /\ Restricted
    /\ pc = "destroyed"
    /\ assigned
    /\ available = options.max_memory

\* C18: whenever sandbox_run has returned, the VM's stack has the height it
\* had when sandbox_run was called: nothing the call pushed is left on it.
C18_StackBalanced ==
    pc = "idle" => stack = <<>>

\* C19: with max_instructions = N > 0 the count hook is called in a
\* sandbox_run only once the chunks of that run have had N instructions
\* counted: a run of fewer instructions is not stopped by the limit.
C19_LimitPerRun ==
    inhook => executed >= options.max_instructions

\* C20: when sandbox_init has returned -1 no VM it created is left open:
\* every block of the VM has been released.
C20_NoLeakedVm ==
    pc = "init_failed" => LiveBytes = 0

\* The option character c is given on the command line.
Given(c) == \E i \in 1 .. Len(argv) : argv[i].c = c

\* C15: when censorscope_options_init has returned 0, max_instructions and
\* max_memory are >= 0, and every option that was not given holds its
\* default: 0, 0, "luasrc", "sandbox".
C15_OptionsValid ==
    (pc = "options_returned" /\ rc = 0)
      => /\ options.max_instructions >= 0
         /\ options.max_memory >= 0
         /\ ~Given("i") => options.max_instructions = 0
         /\ ~Given("m") => options.max_memory = 0
         /\ ~Given("l") => options.luasrc_dir = "luasrc"
         /\ ~Given("s") => options.sandbox_dir = "sandbox"
====
